---- MODULE Spec2Model ----
(***************************************************************************)
(* The tawk command-line driver (src/main.go): func main as a state        *)
(* machine, with showSourceLine and errorExit.  Byte strings are sequences *)
(* of byte values (0..255); messages written by errorExit are TLA+ strings.*)
(* The external collaborators (the file system, parser.ParseProgram,       *)
(* interp.ExecProgram, runtime/pprof) are modelled by their outcomes.      *)
(* The -d and -dt flags only add debug text to os.Stderr and are left out; *)
(* a ParseError carries a position inside the source it was given.         *)
(***************************************************************************)
EXTENDS Integers, Sequences, FiniteSets, TLC

(* ---- bounds of the model ---------------------------------------------- *)
MaxFiles   == 2   \* -f flags on one command line
MaxFragLen == 1   \* bytes in one program file
MaxVars    == 2   \* -v flags on one command line
MaxFlagLen == 2   \* bytes in one -v flag
MaxArgs    == 2   \* positional arguments
MaxSrcLen  == 3   \* bytes in an inline program whose parse fails
MaxMsgLen  == 1   \* characters of a rendered parse-error message
MaxStatus  == 2   \* largest exit status ExecProgram returns

(* ---- bytes the program names ------------------------------------------ *)
TAB   == 9        \* "\t"
NL    == 10       \* '\n'
SP    == 32       \* " "
DASH  == 45       \* "-"
EQ    == 61       \* "="
CARET == 94       \* "^"

(* ---- generic helpers -------------------------------------------------- *)
\* all sequences over S of length 0..n
SeqsUpTo(S, n) == UNION {[1..k -> S] : k \in 0..n}

\* strings.Repeat(s, n)
RECURSIVE Repeat(_, _)
Repeat(s, n) == IF n <= 0 THEN <<>> ELSE s \o Repeat(s, n - 1)

\* index of the first occurrence of byte b in s, 0 when there is none
RECURSIVE IndexFrom(_, _, _)
IndexFrom(s, b, i) ==
    IF i > Len(s) THEN 0
    ELSE IF s[i] = b THEN i
    ELSE IndexFrom(s, b, i + 1)

IndexByte(s, b) == IndexFrom(s, b, 1)

\* s[from..to] as a sequence (empty when from > to)
Slice(s, from, to) == [k \in 1..(to - from + 1) |-> s[from + k - 1]]

(* ---- pure functions of the driver ------------------------------------- *)

\* a split on the last "=" instead of the first
SplitLast(v) ==
    LET eqs == {i \in 1..Len(v) : v[i] = EQ}
    IN  IF eqs = {} THEN <<v>>
        ELSE LET i == CHOOSE k \in eqs : \A j \in eqs : j <= k
             IN  <<Slice(v, 1, i - 1), Slice(v, i + 1, Len(v))>>

\* strings.SplitN(v, "=", 2): one part when v has no "=", otherwise the
\* text before the first "=" and everything after it.
SplitN2(v) ==
    LET i == IndexByte(v, EQ)
    IN  IF i = 0 THEN <<v>>
        ELSE <<Slice(v, 1, i - 1), Slice(v, i + 1, Len(v))>>

\* bytes.Split(src, []byte{'\n'}): the lines of src, at least one.
RECURSIVE SplitLines(_)
SplitLines(s) ==
    LET i == IndexByte(s, NL)
    IN  IF i = 0 THEN <<s>>
        ELSE <<Slice(s, 1, i - 1)>> \o SplitLines(Slice(s, i + 1, Len(s)))

\* strings.Count(s, "\t")
RECURSIVE CountTabs(_)
CountTabs(s) ==
    IF s = <<>> THEN 0
    ELSE (IF Head(s) = TAB THEN 1 ELSE 0) + CountTabs(Tail(s))

\* UTF-8 byte classes (the model's byte alphabet holds ASCII bytes, leading
\* bytes of two-byte sequences and continuation bytes).
IsLead2(b) == b \in 194..223
IsCont(b)  == b \in 128..191

\* utf8.RuneCountInString(s): a well-formed two-byte sequence is one rune,
\* every other byte (ASCII, or a byte of an ill-formed sequence) is one rune.
RECURSIVE RuneCount(_)
RuneCount(s) ==
    IF s = <<>> THEN 0
    ELSE IF IsLead2(s[1]) /\ Len(s) >= 2 /\ IsCont(s[2])
         THEN 1 + RuneCount(Tail(Tail(s)))
         ELSE 1 + RuneCount(Tail(s))

\* strings.Replace(s, "\t", "    ", -1)
RECURSIVE ExpandTabs(_)
ExpandTabs(s) ==
    IF s = <<>> THEN <<>>
    ELSE (IF Head(s) = TAB THEN <<SP, SP, SP, SP>> ELSE <<Head(s)>>)
         \o ExpandTabs(Tail(s))

\* a mis-alignment: four spaces for each tab, which runeColumn counted once
CaretLineFourPerTab(runeColumn, numTabs) ==
    Repeat(<<SP>>, runeColumn) \o Repeat(<<SP, SP, SP, SP>>, numTabs) \o <<CARET>>

\* the caret line of showSourceLine (line 183)
CaretLine(runeColumn, numTabs) ==
    Repeat(<<SP>>, runeColumn) \o Repeat(<<SP, SP, SP>>, numTabs) \o <<CARET>>

\* showSourceLine(src, pos, dividerLen): the lines it prints to os.Stderr.
\* lines[pos.Line-1] and srcLine[:pos.Column-1] are taken as Go takes them;
\* the caller supplies a position inside the source.
ShowSourceLine(source, pos, dividerLen) ==
    LET divider    == Repeat(<<DASH>>, dividerLen)
        lines      == SplitLines(source)
        srcLine    == lines[pos.Line]
        numTabs    == CountTabs(SubSeq(srcLine, 1, pos.Column - 1))
        runeColumn == RuneCount(SubSeq(srcLine, 1, pos.Column - 1))
        shown      == <<ExpandTabs(srcLine), CaretLine(runeColumn, numTabs)>>
    IN  IF divider # <<>> THEN <<divider>> \o shown \o <<divider>> ELSE shown

(* ---- messages of errorExit -------------------------------------------- *)
UsageMsg       == "usage: tawk [-F fs] [-v var=value] [-f progfile | 'prog'] [file ...]"
VarFormatMsg   == "-v flag must be in format name=value"
CPUCreateMsg   == "could not create CPU profile"
CPUStartMsg    == "could not start CPU profile"
MemCreateMsg   == "could not create memory profile"
MemWriteMsg    == "could not write memory profile"
OpenErrMsg     == "open: no such file or directory"
ReadErrMsg     == "read error"
ParseErrMsg    == "parse error"
ExecErrMsg     == "runtime error"

(* ---- state ------------------------------------------------------------ *)
VARIABLES
    progFiles,    \* -f flags, in order: paths, "-" is standard input
    fileEnv,      \* per -f flag what the file system does: result and bytes
    flagArgs,     \* flag.Args(): the positional arguments
    fieldSep,     \* -F, default " "
    vars,         \* -v flags, in order
    showVersion,  \* -version
    cpuprofile,   \* -cpuprofile, "" when absent
    memprofile,   \* -memprofile, "" when absent
    pc,           \* position of main
    idx,          \* index of the -f flag the loop is at (1-based)
    buf,          \* bytes.Buffer of the assembly loop
    src,          \* the program source
    args,         \* the local args
    configArgs,   \* config.Args
    configVars,   \* config.Vars, a flat list name, value, name, value ...
    parseErr,     \* what ParseProgram returned: kind, position, message length
    openFiles,    \* file handles the driver holds open
    sampling,     \* CPU sampling is running
    status,       \* the status ExecProgram returned
    calls,        \* external operations called so far, in order
    stderr,       \* lines showSourceLine wrote
    errMsg,       \* the message errorExit wrote, "" when none
    stdout,       \* lines written to standard output
    exitCode      \* the process exit code, -1 while running

flags == <<progFiles, fileEnv, flagArgs, fieldSep, vars, showVersion,
           cpuprofile, memprofile>>
locals == <<idx, buf, src, args, configArgs, configVars, parseErr, openFiles,
            sampling, status, calls, stderr, errMsg, stdout, exitCode>>
allvars == <<flags, pc, locals>>

(* ---- command lines and environments the model runs -------------------- *)
StdinPath == "-"
FilePath  == "prog.awk"
NoErr     == [kind |-> "none", Line |-> 0, Column |-> 0, msgLen |-> 0]

\* "x": a one-byte inline program; "BEGIN { x*; }": the program of the
\* comment above showSourceLine
ProgX       == <<120>>
ProgExample == <<66, 69, 71, 73, 78, 32, 123, 32, 120, 42, 59, 32, 125>>
\* -v A=1 -v FS=, -v A=2
VarsExample == << <<65, 61, 49>>, <<70, 83, 61, 44>>, <<65, 61, 50>> >>
\* -v A=B=C: a value that holds an "="
VarsNested  == << <<65, 61, 66, 61, 67>> >>

\* one -f flag with what the file system does for it
FileCases(dataSet) ==
    {[path |-> p, result |-> "ok", data |-> d] :
        p \in {StdinPath, FilePath}, d \in dataSet}
    \cup {[path |-> p, result |-> "readfail", data |-> d] :
        p \in {StdinPath, FilePath}, d \in {<<>>, <<120>>}}
    \cup {[path |-> FilePath, result |-> "openfail", data |-> <<>>]}

FileLists(dataSet, n) == SeqsUpTo(FileCases(dataSet), n)

CmdLine(files, pos, fs, vs, ver, cpu, mem) ==
    [files |-> files, pos |-> pos, fs |-> fs, vs |-> vs, ver |-> ver,
     cpu |-> cpu, mem |-> mem]

\* control flow: every branch of main, with small data
FlowCmds ==
    {CmdLine(f, p, <<SP>>, v, ver, cpu, mem) :
        f \in FileLists({<<120>>}, 1),
        p \in {<<>>, <<ProgX>>},
        v \in {<<>>, <<<<65, 61, 120>>>>, <<<<65>>>>},
        ver \in BOOLEAN,
        cpu \in {"", "cpu.prof"},
        mem \in {"", "mem.prof"}}

\* source assembly: every list of program files with every content
FileCmds ==
    {CmdLine(f, <<>>, <<SP>>, <<>>, FALSE, "", "") :
        f \in FileLists(SeqsUpTo({120, NL}, MaxFragLen), MaxFiles)}

\* variable pre-assignment: every list of -v flags over "A" and "="
VarCmds ==
    {CmdLine(<<>>, <<ProgX>>, fs, v, FALSE, "", "") :
        fs \in {<<SP>>, <<44>>},
        v \in SeqsUpTo(SeqsUpTo({65, EQ}, MaxFlagLen), MaxVars)
                \cup {VarsExample, VarsNested}}

\* positional arguments, with and without -f
ArgCmds ==
    {CmdLine(f, p, <<SP>>, <<>>, FALSE, "", "") :
        f \in FileLists({<<120>>}, 1),
        p \in SeqsUpTo({<<>>, <<120>>, <<120, NL>>}, MaxArgs)}

\* inline programs over "x", tab, newline and the two bytes of U+00E9
SrcCmds ==
    {CmdLine(<<>>, <<p>>, <<SP>>, <<>>, FALSE, "", "") :
        p \in SeqsUpTo({120, TAB, NL, 195, 169}, MaxSrcLen) \cup {ProgExample}}

Cmds == FlowCmds \cup FileCmds \cup VarCmds \cup ArgCmds \cup SrcCmds

\* the state when flag.Parse has returned
Init ==
    /\ \E c \in Cmds :
        /\ progFiles = [k \in 1..Len(c.files) |-> c.files[k].path]
        /\ fileEnv = [k \in 1..Len(c.files) |->
                        [result |-> c.files[k].result, data |-> c.files[k].data]]
        /\ flagArgs = c.pos
        /\ args = c.pos
        /\ fieldSep = c.fs
        /\ vars = c.vs
        /\ showVersion = c.ver
        /\ cpuprofile = c.cpu
        /\ memprofile = c.mem
    /\ pc = "start"
    /\ idx = 0
    /\ buf = <<>>
    /\ src = <<>>
    /\ configArgs = <<>>
    /\ configVars = <<>>
    /\ parseErr = NoErr
    /\ openFiles = {}
    /\ sampling = FALSE
    /\ status = 0
    /\ calls = <<>>
    /\ stderr = <<>>
    /\ errMsg = ""
    /\ stdout = <<>>
    /\ exitCode = -1

(* ---- errorExit (lines 189-192) ---------------------------------------- *)
\* fmt.Fprintf(os.Stderr, ...) then os.Exit(1); the caller states what else
\* of the state it leaves unchanged.
ErrorExit(msg) ==
    /\ errMsg' = msg
    /\ exitCode' = 1
    /\ pc' = "done"

(* ---- main, lines 40-43: -version -------------------------------------- *)
ShowVersion ==
    /\ pc = "start"
    /\ showVersion
    /\ stdout' = Append(stdout, "TroutAWK 1.0")
    /\ exitCode' = 0
    /\ pc' = "done"
    /\ UNCHANGED <<flags, idx, buf, src, args, configArgs, configVars, parseErr,
                   openFiles, sampling, status, calls, stderr, errMsg>>

(* ---- main, lines 45-77: the program source ---------------------------- *)
\* a mis-assembly: the newline only when the fragment does not end in one
AppendFragmentIfMissing(b, data) ==
    IF data # <<>> /\ data[Len(data)] = NL THEN b \o data
    ELSE (b \o data) \o <<NL>>

\* buf.ReadFrom(...) then buf.WriteByte('\n') (lines 51/60 and 68)
AppendFragment(b, data) == (b \o data) \o <<NL>>

\* len(progFiles) > 0: start the loop over the program files
BeginAssemble ==
    /\ pc = "start"
    /\ ~showVersion
    /\ Len(progFiles) > 0
    /\ buf' = <<>>
    /\ idx' = 1
    /\ pc' = "assemble"
    /\ UNCHANGED <<flags, src, args, configArgs, configVars, parseErr, openFiles,
                   sampling, status, calls, stderr, errMsg, stdout, exitCode>>

\* progFile == "-": buf.ReadFrom(os.Stdin), then the newline
ReadStdin ==
    /\ pc = "assemble"
    /\ idx <= Len(progFiles)
    /\ progFiles[idx] = StdinPath
    /\ IF fileEnv[idx].result = "ok"
       THEN /\ buf' = AppendFragment(buf, fileEnv[idx].data)
            /\ idx' = idx + 1
            /\ UNCHANGED <<pc, errMsg, exitCode>>
       ELSE /\ buf' = buf \o fileEnv[idx].data
            /\ ErrorExit(ReadErrMsg)
            /\ UNCHANGED idx
    /\ UNCHANGED <<flags, src, args, configArgs, configVars, parseErr, openFiles,
                   sampling, status, calls, stderr, stdout>>

\* os.Open(progFile)
OpenProgFile ==
    /\ pc = "assemble"
    /\ idx <= Len(progFiles)
    /\ progFiles[idx] # StdinPath
    /\ IF fileEnv[idx].result = "openfail"
       THEN /\ ErrorExit(OpenErrMsg)
            /\ UNCHANGED openFiles
       ELSE /\ openFiles' = openFiles \cup {"progfile"}
            /\ pc' = "reading"
            /\ UNCHANGED <<errMsg, exitCode>>
    /\ UNCHANGED <<flags, idx, buf, src, args, configArgs, configVars, parseErr,
                   sampling, status, calls, stderr, stdout>>

\* buf.ReadFrom(f), f.Close() on both outcomes, then the newline
ReadProgFile ==
    /\ pc = "reading"
    /\ openFiles' = openFiles \ {"progfile"}
    /\ IF fileEnv[idx].result = "ok"
       THEN /\ buf' = AppendFragment(buf, fileEnv[idx].data)
            /\ idx' = idx + 1
            /\ pc' = "assemble"
            /\ UNCHANGED <<errMsg, exitCode>>
       ELSE /\ buf' = buf \o fileEnv[idx].data
            /\ ErrorExit(ReadErrMsg)
            /\ UNCHANGED idx
    /\ UNCHANGED <<flags, src, args, configArgs, configVars, parseErr,
                   sampling, status, calls, stderr, stdout>>

\* src = buf.Bytes()
EndAssemble ==
    /\ pc = "assemble"
    /\ idx > Len(progFiles)
    /\ src' = buf
    /\ pc' = "parse"
    /\ UNCHANGED <<flags, idx, buf, args, configArgs, configVars, parseErr,
                   openFiles, sampling, status, calls, stderr, errMsg, stdout,
                   exitCode>>

\* a missing guard: no -f and no argument goes on with an empty source
NoSourceEmptyProgram ==
    /\ pc = "start"
    /\ ~showVersion
    /\ Len(progFiles) = 0
    /\ Len(args) < 1
    /\ src' = <<>>
    /\ pc' = "parse"
    /\ UNCHANGED <<flags, idx, buf, args, configArgs, configVars, parseErr,
                   openFiles, sampling, status, calls, stderr, errMsg, stdout,
                   exitCode>>

\* no -f and len(args) < 1: the usage message
NoSourceUsage ==
    /\ pc = "start"
    /\ ~showVersion
    /\ Len(progFiles) = 0
    /\ Len(args) < 1
    /\ ErrorExit(UsageMsg)
    /\ UNCHANGED <<flags, idx, buf, src, args, configArgs, configVars, parseErr,
                   openFiles, sampling, status, calls, stderr, stdout>>

\* a missing shift: the program text stays among the program arguments
InlineSourceKeepArgs ==
    /\ pc = "start"
    /\ ~showVersion
    /\ Len(progFiles) = 0
    /\ Len(args) >= 1
    /\ src' = args[1]
    /\ pc' = "parse"
    /\ UNCHANGED <<flags, idx, buf, args, configArgs, configVars, parseErr,
                   openFiles, sampling, status, calls, stderr, errMsg, stdout,
                   exitCode>>

\* no -f: src = []byte(args[0]); args = args[1:]
InlineSource ==
    /\ pc = "start"
    /\ ~showVersion
    /\ Len(progFiles) = 0
    /\ Len(args) >= 1
    /\ src' = args[1]
    /\ args' = Tail(args)
    /\ pc' = "parse"
    /\ UNCHANGED <<flags, idx, buf, configArgs, configVars, parseErr, openFiles,
                   sampling, status, calls, stderr, errMsg, stdout, exitCode>>

(* ---- main, lines 95-105: parser.ParseProgram -------------------------- *)
\* the positions a ParseError can carry: a line of the source and a byte
\* offset inside that line (Column-1 in 0..len)
ValidPositions(source) ==
    LET lines == SplitLines(source)
    IN  UNION {{[Line |-> l, Column |-> c] : c \in 1..(Len(lines[l]) + 1)} :
                  l \in 1..Len(lines)}

ParseOk ==
    /\ pc = "parse"
    /\ calls' = Append(calls, "ParseProgram")
    /\ pc' = "config"
    /\ UNCHANGED <<flags, idx, buf, src, args, configArgs, configVars, parseErr,
                   openFiles, sampling, status, stderr, errMsg, stdout, exitCode>>

\* err is a *parser.ParseError: showSourceLine, then errorExit
ParseFail ==
    /\ pc = "parse"
    /\ \E pos \in ValidPositions(src), n \in 0..MaxMsgLen :
        /\ parseErr' = [kind |-> "ParseError", Line |-> pos.Line,
                        Column |-> pos.Column, msgLen |-> n]
        /\ stderr' = stderr \o ShowSourceLine(src, pos, n)
    /\ calls' = Append(calls, "ParseProgram")
    /\ ErrorExit(ParseErrMsg)
    /\ UNCHANGED <<flags, idx, buf, src, args, configArgs, configVars, openFiles,
                   sampling, status, stdout>>

\* err is some other error: errorExit alone
ParseOtherError ==
    /\ pc = "parse"
    /\ parseErr' = [kind |-> "error", Line |-> 0, Column |-> 0, msgLen |-> 0]
    /\ calls' = Append(calls, "ParseProgram")
    /\ ErrorExit(ParseErrMsg)
    /\ UNCHANGED <<flags, idx, buf, src, args, configArgs, configVars, openFiles,
                   sampling, status, stderr, stdout>>

(* ---- main, lines 106-128: interp.Config ------------------------------- *)
FSName == <<70, 83>>      \* "FS"

\* the loop over vars (lines 122-128): config.Vars when every flag splits
\* in two, and whether the loop ran to its end
RECURSIVE AppendVars(_, _)
AppendVars(acc, vs) ==
    IF vs = <<>> THEN [ok |-> TRUE, vars |-> acc]
    ELSE LET parts == SplitN2(Head(vs))
         IN  IF Len(parts) # 2 THEN [ok |-> FALSE, vars |-> acc]
             ELSE AppendVars(acc \o <<parts[1], parts[2]>>, Tail(vs))

\* a missing check: a flag without "=" is skipped and main goes on
RECURSIVE AppendVarsLenient(_, _)
AppendVarsLenient(acc, vs) ==
    IF vs = <<>> THEN acc
    ELSE LET parts == SplitN2(Head(vs))
         IN  IF Len(parts) # 2 THEN AppendVarsLenient(acc, Tail(vs))
             ELSE AppendVarsLenient(acc \o <<parts[1], parts[2]>>, Tail(vs))

BuildConfigLenient ==
    /\ pc = "config"
    /\ configArgs' = args
    /\ configVars' = AppendVarsLenient(<<FSName, fieldSep>>, vars)
    /\ pc' = "cpuprofile"
    /\ UNCHANGED <<flags, idx, buf, src, args, parseErr, openFiles, sampling,
                   status, calls, stderr, errMsg, exitCode, stdout>>

BuildConfig ==
    /\ pc = "config"
    /\ configArgs' = args
    /\ LET r == AppendVars(<<FSName, fieldSep>>, vars)
       IN  /\ configVars' = r.vars
           /\ IF r.ok
              THEN /\ pc' = "cpuprofile"
                   /\ UNCHANGED <<errMsg, exitCode>>
              ELSE ErrorExit(VarFormatMsg)
    /\ UNCHANGED <<flags, idx, buf, src, args, parseErr, openFiles, sampling,
                   status, calls, stderr, stdout>>

(* ---- main, lines 130-138: the CPU profile ----------------------------- *)
NoCPUProfile ==
    /\ pc = "cpuprofile"
    /\ cpuprofile = ""
    /\ pc' = "exec"
    /\ UNCHANGED <<flags, locals>>

\* os.Create fails
CPUProfileCreateFail ==
    /\ pc = "cpuprofile"
    /\ cpuprofile # ""
    /\ ErrorExit(CPUCreateMsg)
    /\ UNCHANGED <<flags, idx, buf, src, args, configArgs, configVars, parseErr,
                   openFiles, sampling, status, calls, stderr, stdout>>

\* os.Create succeeds, pprof.StartCPUProfile fails
CPUProfileStartFail ==
    /\ pc = "cpuprofile"
    /\ cpuprofile # ""
    /\ openFiles' = openFiles \cup {"cpuprofile"}
    /\ calls' = Append(calls, "StartCPUProfile")
    /\ ErrorExit(CPUStartMsg)
    /\ UNCHANGED <<flags, idx, buf, src, args, configArgs, configVars, parseErr,
                   sampling, status, stderr, stdout>>

\* os.Create and pprof.StartCPUProfile succeed: sampling runs
StartCPUProfile ==
    /\ pc = "cpuprofile"
    /\ cpuprofile # ""
    /\ openFiles' = openFiles \cup {"cpuprofile"}
    /\ calls' = Append(calls, "StartCPUProfile")
    /\ sampling' = TRUE
    /\ pc' = "exec"
    /\ UNCHANGED <<flags, idx, buf, src, args, configArgs, configVars, parseErr,
                   status, stderr, errMsg, stdout, exitCode>>

(* ---- main, lines 140-143: interp.ExecProgram -------------------------- *)
\* ExecProgram returns (st, nil): main goes on
ExecOk ==
    /\ pc = "exec"
    /\ \E st \in 0..MaxStatus : status' = st
    /\ calls' = Append(calls, "ExecProgram")
    /\ pc' = "stopcpu"
    /\ UNCHANGED <<flags, idx, buf, src, args, configArgs, configVars, parseErr,
                   openFiles, sampling, stderr, errMsg, stdout, exitCode>>

\* ExecProgram returns (st, err): errorExit at line 142
ExecFail ==
    /\ pc = "exec"
    /\ \E st \in 0..MaxStatus : status' = st
    /\ calls' = Append(calls, "ExecProgram")
    /\ ErrorExit(ExecErrMsg)
    /\ UNCHANGED <<flags, idx, buf, src, args, configArgs, configVars, parseErr,
                   openFiles, sampling, stderr, stdout>>

(* ---- main, lines 145-147: pprof.StopCPUProfile ------------------------ *)
\* StopCPUProfile stops sampling; it does not close the file it wrote to
StopCPUProfile ==
    /\ pc = "stopcpu"
    /\ IF cpuprofile # ""
       THEN /\ sampling' = FALSE
            /\ calls' = Append(calls, "StopCPUProfile")
       ELSE UNCHANGED <<sampling, calls>>
    /\ pc' = "memprofile"
    /\ UNCHANGED <<flags, idx, buf, src, args, configArgs, configVars, parseErr,
                   openFiles, status, stderr, errMsg, stdout, exitCode>>

(* ---- main, lines 149-159: the heap profile ---------------------------- *)
NoMemProfile ==
    /\ pc = "memprofile"
    /\ memprofile = ""
    /\ pc' = "exit"
    /\ UNCHANGED <<flags, locals>>

\* os.Create fails
MemProfileCreateFail ==
    /\ pc = "memprofile"
    /\ memprofile # ""
    /\ ErrorExit(MemCreateMsg)
    /\ UNCHANGED <<flags, idx, buf, src, args, configArgs, configVars, parseErr,
                   openFiles, sampling, status, calls, stderr, stdout>>

\* os.Create succeeds
MemProfileCreate ==
    /\ pc = "memprofile"
    /\ memprofile # ""
    /\ openFiles' = openFiles \cup {"memprofile"}
    /\ pc' = "heapwrite"
    /\ UNCHANGED <<flags, idx, buf, src, args, configArgs, configVars, parseErr,
                   sampling, status, calls, stderr, errMsg, stdout, exitCode>>

\* runtime.GC(), pprof.WriteHeapProfile(f) succeeds, f.Close()
WriteHeapProfile ==
    /\ pc = "heapwrite"
    /\ calls' = calls \o <<"GC", "WriteHeapProfile">>
    /\ openFiles' = openFiles \ {"memprofile"}
    /\ pc' = "exit"
    /\ UNCHANGED <<flags, idx, buf, src, args, configArgs, configVars, parseErr,
                   sampling, status, stderr, errMsg, stdout, exitCode>>

\* runtime.GC(), pprof.WriteHeapProfile(f) fails: errorExit, f stays open
WriteHeapProfileFail ==
    /\ pc = "heapwrite"
    /\ calls' = calls \o <<"GC", "WriteHeapProfile">>
    /\ ErrorExit(MemWriteMsg)
    /\ UNCHANGED <<flags, idx, buf, src, args, configArgs, configVars, parseErr,
                   openFiles, sampling, status, stderr, stdout>>

(* ---- main, line 161: os.Exit(status) ---------------------------------- *)
\* a lost status: os.Exit(0)
ExitZero ==
    /\ pc = "exit"
    /\ exitCode' = 0
    /\ pc' = "done"
    /\ UNCHANGED <<flags, idx, buf, src, args, configArgs, configVars, parseErr,
                   openFiles, sampling, status, calls, stderr, errMsg, stdout>>

Exit ==
    /\ pc = "exit"
    /\ exitCode' = status
    /\ pc' = "done"
    /\ UNCHANGED <<flags, idx, buf, src, args, configArgs, configVars, parseErr,
                   openFiles, sampling, status, calls, stderr, errMsg, stdout>>

Next ==
    \/ ShowVersion
    \/ BeginAssemble
    \/ ReadStdin
    \/ OpenProgFile
    \/ ReadProgFile
    \/ EndAssemble
    \/ NoSourceUsage
    \/ InlineSource
    \/ ParseOk
    \/ ParseFail
    \/ ParseOtherError
    \/ BuildConfig
    \/ NoCPUProfile
    \/ CPUProfileCreateFail
    \/ CPUProfileStartFail
    \/ StartCPUProfile
    \/ ExecOk
    \/ ExecFail
    \/ StopCPUProfile
    \/ NoMemProfile
    \/ MemProfileCreateFail
    \/ MemProfileCreate
    \/ WriteHeapProfile
    \/ WriteHeapProfileFail
    \/ Exit

Spec == Init /\ [][Next]_allvars

(* ======================================================================= *)
(* Properties                                                              *)
(* ======================================================================= *)
Called(op)   == \E i \in DOMAIN calls : calls[i] = op
Before(a, b) == \E i, j \in DOMAIN calls : i < j /\ calls[i] = a /\ calls[j] = b
Done         == pc = "done"

\* the source the program files are to assemble to: each fragment, in
\* command-line order, followed by one newline
RECURSIVE FragmentsThenNewlines(_)
FragmentsThenNewlines(k) ==
    IF k = 0 THEN <<>>
    ELSE FragmentsThenNewlines(k - 1) \o fileEnv[k].data \o <<NL>>

FailingFiles == {k \in DOMAIN fileEnv : fileEnv[k].result # "ok"}

\* a -v flag is well formed when it holds an "="
HasEq(v)   == \E i \in 1..Len(v) : v[i] = EQ
FirstEq(v) == CHOOSE i \in 1..Len(v) : v[i] = EQ /\ \A j \in 1..(i - 1) : v[j] # EQ
Malformed  == \E k \in DOMAIN vars : ~HasEq(vars[k])

\* FS and -F, then name and value of each -v flag around its first "="
PreAssignments ==
    [k \in 1..(2 + 2 * Len(vars)) |->
        IF k = 1 THEN FSName
        ELSE IF k = 2 THEN fieldSep
        ELSE LET v == vars[(k - 1) \div 2]
             IN  IF k % 2 = 1 THEN SubSeq(v, 1, FirstEq(v) - 1)
                 ELSE SubSeq(v, FirstEq(v) + 1, Len(v))]

(* ---- C1 --------------------------------------------------------------- *)
\* C1: when a CPU profile is configured and sampling was started, no exit
\* after ExecProgram returned (with or without an error) is reached with
\* sampling still running: StopCPUProfile was called after ExecProgram.
C1_SamplingStoppedAtExit ==
    (Done /\ cpuprofile # "" /\ Called("ExecProgram"))
        => (~sampling /\ Before("ExecProgram", "StopCPUProfile"))

(* ---- C2 --------------------------------------------------------------- *)
\* C2: when a heap profile is configured and ExecProgram has returned,
\* with success or with an error, the process does not exit (other than on
\* a failure to create or write the profile file) without a forced
\* collection followed by the snapshot write, both after ExecProgram.
C2_HeapProfileAfterExec ==
    /\ Called("WriteHeapProfile")
        => (Before("ExecProgram", "GC") /\ Before("GC", "WriteHeapProfile"))
    /\ (Done /\ memprofile # "" /\ Called("ExecProgram")
             /\ errMsg \notin {MemCreateMsg, MemWriteMsg})
        => (Before("ExecProgram", "GC") /\ Before("GC", "WriteHeapProfile"))

(* ---- C3 --------------------------------------------------------------- *)
\* C3: with N >= 1 program files all read successfully, the source passed
\* to ParseProgram is the concatenation, in command-line order, of each
\* fragment followed by exactly one newline; when an open or a read fails,
\* assembly stops at the first such fragment, ParseProgram is never called
\* and the exit code is 1.
C3_Assembly ==
    /\ (Len(progFiles) >= 1 /\ Called("ParseProgram"))
        => (FailingFiles = {} /\ src = FragmentsThenNewlines(Len(progFiles)))
    /\ (Len(progFiles) >= 1 /\ FailingFiles # {} /\ ~showVersion)
        => /\ ~Called("ParseProgram")
           /\ idx <= (CHOOSE k \in FailingFiles : \A j \in FailingFiles : k <= j)
           /\ Done => (exitCode = 1 /\ errMsg \in {OpenErrMsg, ReadErrMsg}
                        /\ idx \in FailingFiles)

\* two fragments, the first without and the second with a final newline,
\* have been assembled and parsed
C3_Witness ==
    /\ Called("ParseProgram")
    /\ Len(progFiles) = 2
    /\ fileEnv[1].data = <<120>>
    /\ fileEnv[2].data = <<NL>>
    /\ src = <<120, NL, NL, NL>>

TabsIn(s)  == Cardinality({i \in 1..Len(s) : s[i] = TAB})
RunesIn(s) ==
    Len(s) - Cardinality({i \in 2..Len(s) : IsCont(s[i]) /\ IsLead2(s[i - 1])})

\* C5: for a position inside the source, showSourceLine prints the selected
\* line with every tab replaced by four spaces, then a caret line of
\* runeColumn spaces, 3 x numTabs spaces and one "^", numTabs and
\* runeColumn being the tabs and runes of the first Column-1 bytes of the
\* line; the characters before the caret are as many as the characters of
\* the tab-expanded prefix (10 for "BEGIN { x*; }" at 1:11).
C5_CaretLine ==
    parseErr.kind = "ParseError" =>
        LET line   == SplitLines(src)[parseErr.Line]
            prefix == SubSeq(line, 1, parseErr.Column - 1)
            k      == IF parseErr.msgLen > 0 THEN 1 ELSE 0
            shown  == stderr[k + 1]
            caret  == stderr[k + 2]
        IN  /\ Len(stderr) = 2 + 2 * k
            /\ Len(shown) = Len(line) + 3 * TabsIn(line)
            /\ \A i \in 1..Len(shown) : shown[i] # TAB
            /\ shown = ExpandTabs(line)
            /\ Len(caret) = RunesIn(prefix) + 3 * TabsIn(prefix) + 1
            /\ \A i \in 1..(Len(caret) - 1) : caret[i] = SP
            /\ caret[Len(caret)] = CARET
            /\ Len(caret) - 1 = RunesIn(ExpandTabs(prefix))
            /\ (src = ProgExample /\ parseErr.Line = 1 /\ parseErr.Column = 11)
                 => caret = <<SP, SP, SP, SP, SP, SP, SP, SP, SP, SP, CARET>>

\* a parse error after a tab and a two-byte rune: two runes, one tab,
\* five spaces before the caret
C5_Witness ==
    /\ Done
    /\ src = <<TAB, 195, 169>>
    /\ parseErr.kind = "ParseError"
    /\ parseErr.Column = 4
    /\ parseErr.msgLen = 0
    /\ stderr = << <<SP, SP, SP, SP, 195, 169>>, <<SP, SP, SP, SP, SP, CARET>> >>

(* ---- C6 --------------------------------------------------------------- *)
\* C6: on every run that is not a -version query the exit code is 1 when
\* source assembly, configuration building, parsing, profile-file handling
\* or execution failed, with ExecProgram never called after an assembly,
\* configuration or parse failure, and otherwise it is the status
\* ExecProgram returned.
C6_ExitCode ==
    (Done /\ ~showVersion) =>
        IF errMsg # ""
        THEN /\ exitCode = 1
             /\ errMsg \in {UsageMsg, OpenErrMsg, ReadErrMsg, ParseErrMsg, VarFormatMsg}
                    => ~Called("ExecProgram")
        ELSE /\ Called("ExecProgram")
             /\ exitCode = status

\* a run without failure exited with the status 2 of ExecProgram
C6_Witness == Done /\ errMsg = "" /\ Called("ExecProgram") /\ exitCode = 2

(* ---- C7 --------------------------------------------------------------- *)
\* C7 as stated: an invocation with no -f and no positional argument
\* exits with code 1 after the usage message, and calls neither
\* ParseProgram nor ExecProgram.
C7_AsStated ==
    (progFiles = <<>> /\ flagArgs = <<>>)
        => /\ ~Called("ParseProgram") /\ ~Called("ExecProgram")
           /\ Done => (exitCode = 1 /\ errMsg = UsageMsg)

\* C7 amended: an invocation with no -f and no positional argument that is
\* not a -version query exits with code 1 after the usage message, and
\* calls neither ParseProgram nor ExecProgram (with -version the driver
\* prints the version and exits 0, also without parsing).
C7_UsageExit ==
    (progFiles = <<>> /\ flagArgs = <<>>)
        => /\ ~Called("ParseProgram") /\ ~Called("ExecProgram")
           /\ (Done /\ ~showVersion) => (exitCode = 1 /\ errMsg = UsageMsg)
           /\ (Done /\ showVersion) => (exitCode = 0 /\ errMsg = "")

C7_Witness ==
    Done /\ progFiles = <<>> /\ flagArgs = <<>> /\ ~showVersion
         /\ exitCode = 1 /\ errMsg = UsageMsg

(* ---- C8 --------------------------------------------------------------- *)
\* C8: with at least one -f the source passed to the parser comes from the
\* files alone and ExecProgram gets every positional argument, in order;
\* with no -f and at least one positional argument the source is the first
\* positional argument, no newline added, and ExecProgram gets the rest.
C8_SourceMode ==
    /\ (Len(progFiles) >= 1 /\ Called("ParseProgram"))
        => src = FragmentsThenNewlines(Len(progFiles))
    /\ (Len(progFiles) >= 1 /\ Called("ExecProgram"))
        => configArgs = flagArgs
    /\ (Len(progFiles) = 0 /\ Len(flagArgs) >= 1 /\ Called("ParseProgram"))
        => src = flagArgs[1]
    /\ (Len(progFiles) = 0 /\ Len(flagArgs) >= 1 /\ Called("ExecProgram"))
        => configArgs = SubSeq(flagArgs, 2, Len(flagArgs))

\* the inline program "x" ran with the one remaining argument "x\n"
C8_Witness ==
    /\ Called("ExecProgram")
    /\ progFiles = <<>>
    /\ flagArgs = << <<120>>, <<120, NL>> >>
    /\ src = <<120>>
    /\ configArgs = << <<120, NL>> >>

C10_AllHandlesReleased ==
    /\ pc # "reading" => "progfile" \notin openFiles
    /\ (Done /\ errMsg = "" /\ ~showVersion) => openFiles = {}
====
